---- MODULE Spec2Model ----
(***************************************************************************)
(* Model of logstash/formatter.py: LogstashFormatterBase and its two       *)
(* subclasses LogstashFormatterVersion0 / LogstashFormatterVersion1.       *)
(*                                                                         *)
(* Python values are tagged tuples:                                        *)
(*   <<"Str", s>>  <<"Bool", b>>  <<"Int", n>>  <<"Float", secs, micros>>  *)
(*   <<"Null">>  <<"List", seq>>  <<"Map", dict>>                          *)
(*   <<"Other", id>>    an arbitrary object (not an "easy type")           *)
(*   <<"ExcInfo", cls>> the (type, value, traceback) tuple of exc_info     *)
(*   <<"Tuple", seq>>   a tuple (record.args; always empty here)           *)
(* A Python dict is a sequence of <<key, value>> pairs with unique keys,   *)
(* in insertion order (record.__dict__, the message dict, extra_fields).   *)
(***************************************************************************)
EXTENDS Integers, Sequences, FiniteSets, TLC

VARIABLES
    version,        \* which subclass the formatter is: 0 or 1
    log_attrs,      \* self.log_attrs: sequence of <<attr_name, field_name>>
    extra_fields,   \* self.extra_fields: dict, or None
    message_type,   \* self.message_type
    tags,           \* self.tags
    host,           \* self.host
    record,         \* the LogRecord handed to format: its __dict__
    callers,        \* the threads that call format on the formatter
    pc,             \* pc[t]: position of thread t inside format
    message,        \* message[t]: the local dict `message` of thread t's call
    result          \* result[t]: what thread t's call returned or raised

self == <<version, log_attrs, extra_fields, message_type, tags, host>>
vars == <<version, log_attrs, extra_fields, message_type, tags, host,
          record, callers, pc, message, result>>

-----------------------------------------------------------------------------
(* Bounds *)

NumThreads == 2     \* threads that may be inside format at the same time
MaxDepth == 1       \* nesting depth of caller-supplied list / dict values

Threads == 1..NumThreads

-----------------------------------------------------------------------------
(* Python values and dicts *)

None == <<"Null">>
PyStr(s) == <<"Str", s>>
PyInt(n) == <<"Int", n>>
PyBool(b) == <<"Bool", b>>
PyFloat(secs, micros) == <<"Float", secs, micros>>
PyList(seq) == <<"List", seq>>
PyMap(d) == <<"Map", d>>
PyOther(id) == <<"Other", id>>
ExcInfo(cls) == <<"ExcInfo", cls>>
PyTuple(seq) == <<"Tuple", seq>>

EmptyDict == << >>

\* bool(v)
Truthy(v) ==
    CASE v[1] = "Null"  -> FALSE
      [] v[1] = "Str"   -> v[2] # ""
      [] v[1] = "Bool"  -> v[2]
      [] v[1] = "Int"   -> v[2] # 0
      [] v[1] = "Float" -> v[2] # 0 \/ v[3] # 0
      [] v[1] = "List"  -> Len(v[2]) > 0
      [] v[1] = "Map"   -> Len(v[2]) > 0
      [] v[1] = "Tuple" -> Len(v[2]) > 0
      [] OTHER          -> TRUE

DictKeys(d) == { d[i][1] : i \in DOMAIN d }
DictHas(d, k) == \E i \in DOMAIN d : d[i][1] = k
DictGet(d, k) == d[CHOOSE i \in DOMAIN d : d[i][1] = k][2]

\* d.setdefault(k, v) in place of d[k] = v: an existing key keeps its value
DictSetKeepFirst(d, k, v) ==
    IF DictHas(d, k) THEN d ELSE Append(d, <<k, v>>)

\* d[k] = v
DictSet(d, k, v) ==
    IF DictHas(d, k)
    THEN [i \in DOMAIN d |-> IF d[i][1] = k THEN <<k, v>> ELSE d[i]]
    ELSE Append(d, <<k, v>>)

\* del d[k]
DictDel(d, k) == SelectSeq(d, LAMBDA p : p[1] # k)

\* d.update(e)
RECURSIVE DictUpdate(_, _)
DictUpdate(d, e) ==
    IF e = << >> THEN d
    ELSE DictUpdate(DictSet(d, Head(e)[1], Head(e)[2]), Tail(e))

\* getattr(record, name, None)
GetAttr(rec, name) == IF DictHas(rec, name) THEN DictGet(rec, name) ELSE None

\* repr(value) of a value that is not an easy type
Repr(v) ==
    CASE v[1] = "ExcInfo" ->
            "(<class '" \o v[2] \o "'>, " \o v[2] \o "('boom'), <traceback object>)"
      [] v[1] = "Tuple" -> "()"
      [] OTHER -> "<" \o v[2] \o " object>"

-----------------------------------------------------------------------------
(* LogstashFormatterBase *)

DefaultLogAttrs ==
    << <<"Str", "message">>, <<"Tuple", "pathname", "path">>,
       <<"Tuple", "levelname", "level">>, <<"Tuple", "name", "logger_name">> >>

\* __init__: the log_attrs loop; an argument entry is either a bare
\* attribute name <<"Str", a>> or a tuple <<"Tuple", a, f>>
InitLogAttrs(arg) ==
    LET la == IF arg = << >> THEN DefaultLogAttrs ELSE arg
    IN  [i \in DOMAIN la |->
            IF la[i][1] = "Tuple" THEN <<la[i][2], la[i][3]>>
            ELSE <<la[i][2], la[i][2]>>]

\* __init__: self.tags = tags if tags is not None else []
InitTags(arg) == IF arg = None THEN << >> ELSE arg

\* __init__: socket.getfqdn() / socket.gethostname()
InitHost(fqdn) == IF fqdn THEN "h1.example.com" ELSE "h1"

\* isinstance(value, easy_types), Python 3 branch
IsEasyType(v) == v[1] \in {"Str", "Bool", "Map", "Float", "Int", "List", "Null"}

\* log_keys.index(key)
IndexOf(seq, key) == CHOOSE i \in DOMAIN seq :
                        seq[i] = key /\ \A j \in 1..(i - 1) : seq[j] # key

\* the value get_log_fields stores for an attribute value
FieldValue(v) == IF IsEasyType(v) THEN v ELSE PyStr(Repr(v))

RECURSIVE LogFieldsLoop(_, _, _, _)
LogFieldsLoop(items, log_keys, field_names, fields) ==
    IF items = << >> THEN fields
    ELSE LET key == Head(items)[1]
             value == Head(items)[2]
         IN  IF \E i \in DOMAIN log_keys : log_keys[i] = key
             THEN LogFieldsLoop(Tail(items), log_keys, field_names,
                      DictSet(fields, field_names[IndexOf(log_keys, key)],
                              FieldValue(value)))
             ELSE LogFieldsLoop(Tail(items), log_keys, field_names, fields)

\* a pass-through: every attribute of the record is copied under its own name
get_log_fields_passthrough(attrs, rec) ==
    [i \in DOMAIN rec |-> <<rec[i][1], FieldValue(rec[i][2])>>]

get_log_fields(attrs, rec) ==
    LET log_keys == [i \in DOMAIN attrs |-> attrs[i][1]]
        field_names == [i \in DOMAIN attrs |-> attrs[i][2]]
    IN  LogFieldsLoop(rec, log_keys, field_names, EmptyDict)

\* the condition the wrong way round
format_exception_inverted(exc_info) ==
    IF ~Truthy(exc_info) THEN "NoneType: None\n" ELSE ""

format_exception(exc_info) ==
    IF Truthy(exc_info)
    THEN "Traceback (most recent call last):\n" \o exc_info[2] \o ": boom\n"
    ELSE ""

\* get_debug_fields raises AttributeError when it reads record.funcName or
\* record.processName and the record has no such attribute
DebugRaises(rec) ==
    \/ ~DictHas(rec, "funcName")
    \/ ~DictHas(rec, "processName")

RECURSIVE RemoveDuplicated(_, _)
RemoveDuplicated(fields, keys) ==
    IF keys = << >> THEN fields
    ELSE RemoveDuplicated(DictDel(fields, Head(keys)), Tail(keys))

\* the keys get_debug_fields compares the debug keys against
DuplicateNames(attrs) == { attrs[i][1] : i \in DOMAIN attrs }

get_debug_fields(attrs, rec) ==
    LET f0 == << <<"stack_trace", PyStr(format_exception(DictGet(rec, "exc_info")))>>,
                 <<"lineno", DictGet(rec, "lineno")>>,
                 <<"process", DictGet(rec, "process")>>,
                 <<"thread_name", DictGet(rec, "threadName")>> >>
        f1 == IF ~Truthy(GetAttr(rec, "funcName"))
              THEN DictSet(f0, "funcName", DictGet(rec, "funcName"))
              ELSE f0
        f2 == IF ~Truthy(GetAttr(rec, "processName"))
              THEN DictSet(f1, "processName", DictGet(rec, "processName"))
              ELSE f1
        duplicated_keys == SelectSeq([i \in DOMAIN f2 |-> f2[i][1]],
                                     LAMBDA k : k \in DuplicateNames(attrs))
    IN  RemoveDuplicated(f2, duplicated_keys)

\* the separator between host and path left out
format_source_no_slash(mtype, h, path) == mtype \o "://" \o h \o path

format_source(mtype, h, path) == mtype \o "://" \o h \o "/" \o path

Digit(n) == <<"0", "1", "2", "3", "4", "5", "6", "7", "8", "9">>[n + 1]

\* "%0<width>d" % n
RECURSIVE Pad(_, _)
Pad(n, width) ==
    IF width <= 1 /\ n < 10 THEN Digit(n)
    ELSE Pad(n \div 10, width - 1) \o Digit(n % 10)

\* datetime.utcfromtimestamp(time): proleptic Gregorian date of a day count
CivilFromDays(days) ==
    LET z == days + 719468
        era == z \div 146097
        doe == z - era * 146097
        yoe == (doe - doe \div 1460 + doe \div 36524 - doe \div 146096) \div 365
        doy == doe - (365 * yoe + yoe \div 4 - yoe \div 100)
        mp == (5 * doy + 2) \div 153
        d == doy - (153 * mp + 2) \div 5 + 1
        m == IF mp < 10 THEN mp + 3 ELSE mp - 9
        y == yoe + era * 400 + (IF m <= 2 THEN 1 ELSE 0)
    IN  <<y, m, d>>

\* time is <<"Float", seconds, microseconds>>
format_timestamp(time) ==
    LET ymd == CivilFromDays(time[2] \div 86400)
        sod == time[2] % 86400
    IN  Pad(ymd[1], 4) \o "-" \o Pad(ymd[2], 2) \o "-" \o Pad(ymd[3], 2)
        \o "T" \o Pad(sod \div 3600, 2) \o ":" \o Pad((sod % 3600) \div 60, 2)
        \o ":" \o Pad(sod % 60, 2)
        \o "." \o Pad(time[3] \div 1000, 3) \o "Z"

\* json.dumps raises TypeError on a value it has no encoding for
RECURSIVE Serializable(_)
Serializable(v) ==
    CASE v[1] \in {"Str", "Bool", "Int", "Float", "Null"} -> TRUE
      [] v[1] = "List" -> \A i \in DOMAIN v[2] : Serializable(v[2][i])
      [] v[1] = "Map"  -> \A i \in DOMAIN v[2] : Serializable(v[2][i][2])
      [] OTHER -> FALSE

\* json.dumps(v) as the sequence of JSON tokens of the text it returns:
\* <<"p", c>> punctuation, <<"s", text>> a string literal, <<"n", number>>,
\* <<"lit", word>> for true / false / null
RECURSIVE JsonDumps(_)
RECURSIVE JsonElems(_)
RECURSIVE JsonItems(_)
JsonDumps(v) ==
    CASE v[1] = "Str"   -> << <<"s", v[2]>> >>
      [] v[1] = "Bool"  -> << <<"lit", IF v[2] THEN "true" ELSE "false">> >>
      [] v[1] = "Null"  -> << <<"lit", "null">> >>
      [] v[1] = "Int"   -> << <<"n", v>> >>
      [] v[1] = "Float" -> << <<"n", v>> >>
      [] v[1] = "List"  -> << <<"p", "[">> >> \o JsonElems(v[2]) \o << <<"p", "]">> >>
      [] v[1] = "Map"   -> << <<"p", "{">> >> \o JsonItems(v[2]) \o << <<"p", "}">> >>

JsonElems(seq) ==
    IF seq = << >> THEN << >>
    ELSE JsonDumps(Head(seq))
         \o (IF Tail(seq) = << >> THEN << >> ELSE << <<"p", ",">> >>)
         \o JsonElems(Tail(seq))

JsonItems(d) ==
    IF d = << >> THEN << >>
    ELSE << <<"s", Head(d)[1]>>, <<"p", ":">> >> \o JsonDumps(Head(d)[2])
         \o (IF Tail(d) = << >> THEN << >> ELSE << <<"p", ",">> >>)
         \o JsonItems(Tail(d))

\* serialize(message): the bytes of the JSON text, or the TypeError json.dumps raises
serialize(msg) ==
    IF Serializable(PyMap(msg))
    THEN <<"bytes", JsonDumps(PyMap(msg))>>
    ELSE <<"raise", "TypeError">>

\* record.getMessage(): str(msg); msg % args only applies when args is non-empty
getMessage(rec) == DictGet(rec, "msg")[2]

TagList(tg) == PyList([i \in DOMAIN tg |-> PyStr(tg[i])])

-----------------------------------------------------------------------------
(* LogstashFormatterVersion0.format *)

V0Message(mtype, tg, h, rec) ==
    << <<"@timestamp", PyStr(format_timestamp(DictGet(rec, "created")))>>,
       <<"@message", PyStr(getMessage(rec))>>,
       <<"@source", PyStr(format_source(mtype, h, DictGet(rec, "pathname")[2]))>>,
       <<"@source_host", PyStr(h)>>,
       <<"@source_path", DictGet(rec, "pathname")>>,
       <<"@tags", TagList(tg)>>,
       <<"@type", PyStr(mtype)>>,
       <<"@fields", PyMap(<< <<"levelname", DictGet(rec, "levelname")>>,
                             <<"logger", DictGet(rec, "name")>> >>)>> >>

\* message['@fields'].update(e)
V0UpdateFields(msg, e) ==
    DictSet(msg, "@fields", PyMap(DictUpdate(DictGet(msg, "@fields")[2], e)))

V0Build(t) ==
    /\ t \in callers /\ version = 0 /\ pc[t] = "idle"
    /\ message' = [message EXCEPT ![t] = V0Message(message_type, tags, host, record)]
    /\ pc' = [pc EXCEPT ![t] = "log_fields"]
    /\ UNCHANGED <<self, record, callers, result>>

V0AddLogFields(t) ==
    /\ version = 0 /\ pc[t] = "log_fields"
    /\ message' = [message EXCEPT
                     ![t] = V0UpdateFields(@, get_log_fields(log_attrs, record))]
    /\ pc' = [pc EXCEPT ![t] = "extra_fields"]
    /\ UNCHANGED <<self, record, callers, result>>

V0AddExtraFields(t) ==
    /\ version = 0 /\ pc[t] = "extra_fields"
    /\ message' = [message EXCEPT
                     ![t] = IF Truthy(extra_fields)
                            THEN V0UpdateFields(@, extra_fields[2]) ELSE @]
    /\ pc' = [pc EXCEPT ![t] = "debug_fields"]
    /\ UNCHANGED <<self, record, callers, result>>

V0AddDebugFields(t) ==
    /\ version = 0 /\ pc[t] = "debug_fields"
    /\ IF Truthy(DictGet(record, "exc_info"))
       THEN IF DebugRaises(record)
            THEN /\ result' = [result EXCEPT ![t] = <<"raise", "AttributeError">>]
                 /\ pc' = [pc EXCEPT ![t] = "done"]
                 /\ UNCHANGED message
            ELSE /\ message' = [message EXCEPT
                        ![t] = V0UpdateFields(@, get_debug_fields(log_attrs, record))]
                 /\ pc' = [pc EXCEPT ![t] = "serialize"]
                 /\ UNCHANGED result
       ELSE /\ pc' = [pc EXCEPT ![t] = "serialize"]
            /\ UNCHANGED <<message, result>>
    /\ UNCHANGED <<self, record, callers>>

V0Serialize(t) ==
    /\ version = 0 /\ pc[t] = "serialize"
    /\ result' = [result EXCEPT ![t] = serialize(message[t])]
    /\ pc' = [pc EXCEPT ![t] = "done"]
    /\ UNCHANGED <<self, record, callers, message>>

-----------------------------------------------------------------------------
(* LogstashFormatterVersion1.format *)

\* the version written as a number under the key "version"
V1MessageNumericVersion(mtype, tg, h, rec) ==
    << <<"@timestamp", PyStr(format_timestamp(DictGet(rec, "created")))>>,
       <<"version", PyInt(1)>>,
       <<"host", PyStr(h)>>,
       <<"tags", TagList(tg)>>,
       <<"type", PyStr(mtype)>> >>

V1Message(mtype, tg, h, rec) ==
    << <<"@timestamp", PyStr(format_timestamp(DictGet(rec, "created")))>>,
       <<"@version", PyStr("1")>>,
       <<"host", PyStr(h)>>,
       <<"tags", TagList(tg)>>,
       <<"type", PyStr(mtype)>> >>

\* as logging.Formatter.format does: record.message = record.getMessage()
V1BuildSetsRecordMessage(t) ==
    /\ t \in callers /\ version = 1 /\ pc[t] = "idle"
    /\ record' = DictSet(record, "message", PyStr(getMessage(record)))
    /\ message' = [message EXCEPT ![t] = V1Message(message_type, tags, host, record)]
    /\ pc' = [pc EXCEPT ![t] = "log_fields"]
    /\ UNCHANGED <<self, callers, result>>

V1Build(t) ==
    /\ t \in callers /\ version = 1 /\ pc[t] = "idle"
    /\ message' = [message EXCEPT ![t] = V1Message(message_type, tags, host, record)]
    /\ pc' = [pc EXCEPT ![t] = "log_fields"]
    /\ UNCHANGED <<self, record, callers, result>>

V1AddLogFields(t) ==
    /\ version = 1 /\ pc[t] = "log_fields"
    /\ message' = [message EXCEPT
                     ![t] = DictUpdate(@, get_log_fields(log_attrs, record))]
    /\ pc' = [pc EXCEPT ![t] = "extra_fields"]
    /\ UNCHANGED <<self, record, callers, result>>

V1AddExtraFields(t) ==
    /\ version = 1 /\ pc[t] = "extra_fields"
    /\ message' = [message EXCEPT
                     ![t] = IF Truthy(extra_fields)
                            THEN DictUpdate(@, extra_fields[2]) ELSE @]
    /\ pc' = [pc EXCEPT ![t] = "debug_fields"]
    /\ UNCHANGED <<self, record, callers, result>>

V1AddDebugFields(t) ==
    /\ version = 1 /\ pc[t] = "debug_fields"
    /\ IF Truthy(DictGet(record, "exc_info"))
       THEN IF DebugRaises(record)
            THEN /\ result' = [result EXCEPT ![t] = <<"raise", "AttributeError">>]
                 /\ pc' = [pc EXCEPT ![t] = "done"]
                 /\ UNCHANGED message
            ELSE /\ message' = [message EXCEPT
                        ![t] = DictUpdate(@, get_debug_fields(log_attrs, record))]
                 /\ pc' = [pc EXCEPT ![t] = "serialize"]
                 /\ UNCHANGED result
       ELSE /\ pc' = [pc EXCEPT ![t] = "serialize"]
            /\ UNCHANGED <<message, result>>
    /\ UNCHANGED <<self, record, callers>>

V1Serialize(t) ==
    /\ version = 1 /\ pc[t] = "serialize"
    /\ result' = [result EXCEPT ![t] = serialize(message[t])]
    /\ pc' = [pc EXCEPT ![t] = "done"]
    /\ UNCHANGED <<self, record, callers, message>>

\* the call has returned (or raised) and its locals are gone; the thread
\* may call format again
Return(t) ==
    /\ pc[t] = "done"
    /\ pc' = [pc EXCEPT ![t] = "idle"]
    /\ message' = [message EXCEPT ![t] = EmptyDict]
    /\ result' = [result EXCEPT ![t] = <<"none">>]
    /\ UNCHANGED <<self, record, callers>>

-----------------------------------------------------------------------------
(* Inputs: constructor arguments and log records *)

LogAttrArgs ==
    { << >>,
      << <<"Tuple", "custom", "lineno">> >>,
      << <<"Str", "lineno">>, <<"Str", "custom">> >>,
      << <<"Tuple", "custom", "a">>, <<"Tuple", "custom", "b">> >>,
      << <<"Tuple", "lineno", "line">> >>,
      << <<"Str", "stack_trace">>, <<"Str", "message">> >>,
      << <<"Str", "funcName">>, <<"Tuple", "exc_info", "exc">> >>,
      << <<"Tuple", "levelname", "logger">>, <<"Tuple", "custom", "stack_trace">> >> }

ExtraFieldArgs ==
    { None,
      PyMap(EmptyDict),
      PyMap(<< <<"env", PyStr("prod")>>, <<"lineno", PyInt(7)>> >>),
      PyMap(<< <<"stack_trace", PyStr("cfg")>>, <<"level", PyStr("X")>> >>),
      PyMap(<< <<"handle", PyOther("Socket")>> >>) }

\* <<tags, fqdn, message_type>>
HostArgs == { <<None, FALSE, "Logstash">>,
              << <<"a">>, FALSE, "Logstash">>,
              << <<"a", "b">>, TRUE, "applog">> }

Scalars == { PyStr("s"), PyBool(TRUE), PyInt(5), PyFloat(1, 500000), None,
             PyOther("Widget") }

\* what a caller-supplied list or dict of nesting depth <= d may hold
RECURSIVE Elems(_)
Elems(d) ==
    IF d = 0 THEN { PyStr("e"), PyOther("Widget") }
    ELSE LET P == Elems(d - 1)
         IN  P \cup { PyList(<<x>>) : x \in P }
               \cup { PyMap(<< <<"k", x>> >>) : x \in P }

CustomValues ==
    Scalars \cup { PyList(<<x>>) : x \in Elems(MaxDepth - 1) }
            \cup { PyMap(<< <<"k", x>> >>) : x \in Elems(MaxDepth - 1) }

\* <<funcName, processName>>; <<"absent">> is a record shape without the attribute
Shapes == { << <<"absent">>, <<"absent">> >>,
            << PyStr("f"), <<"absent">> >>,
            << PyStr("f"), PyStr("MainProcess") >>,
            << None, PyStr("MainProcess") >> }

Opt(name, v) == IF v = <<"absent">> THEN << >> ELSE << <<name, v>> >>

\* the __dict__ of a LogRecord, in the order logging.LogRecord.__init__
\* sets the attributes; `custom` is a caller-supplied attribute (extra=),
\* `message` is present when another formatter has rendered the record
MakeRecord(exc, shape, custom, rendered) ==
    << <<"name", PyStr("app")>>,
       <<"msg", PyStr("hello")>>,
       <<"args", PyTuple(<< >>)>>,
       <<"levelname", PyStr("INFO")>>,
       <<"pathname", PyStr("/x.py")>>,
       <<"exc_info", exc>>,
       <<"lineno", PyInt(42)>> >>
    \o Opt("funcName", shape[1])
    \o << <<"created", PyFloat(1700000000, 123000)>>,
          <<"threadName", PyStr("MainThread")>> >>
    \o Opt("processName", shape[2])
    \o << <<"process", PyInt(4242)>> >>
    \o Opt("custom", custom)
    \o (IF rendered THEN << <<"message", PyStr("hello")>> >> ELSE << >>)

Records ==
    { MakeRecord(exc, shape, custom, rendered) :
        exc \in {None, ExcInfo("ValueError")},
        shape \in Shapes,
        custom \in CustomValues \cup { <<"absent">> },
        rendered \in BOOLEAN }

\* construction of a formatter, and the record it is asked to format
Construct(v, la, ef, ha, rec) ==
    /\ version = v
    /\ log_attrs = InitLogAttrs(la)
    /\ extra_fields = ef
    /\ message_type = ha[3]
    /\ tags = InitTags(ha[1])
    /\ host = InitHost(ha[2])
    /\ record = rec
    /\ pc = [t \in Threads |-> "idle"]
    /\ message = [t \in Threads |-> EmptyDict]
    /\ result = [t \in Threads |-> <<"none">>]

Init ==
    /\ callers = {1}
    /\ \E v \in {0, 1}, la \in LogAttrArgs, ef \in ExtraFieldArgs,
          ha \in HostArgs, rec \in Records :
            Construct(v, la, ef, ha, rec)

\* several threads share the formatter and the record
InitMT ==
    /\ callers = Threads
    /\ \E v \in {0, 1},
          la \in { << >>, << <<"Tuple", "custom", "lineno">> >> },
          ef \in { None, PyMap(<< <<"env", PyStr("prod")>>, <<"lineno", PyInt(7)>> >>) },
          exc \in {None, ExcInfo("ValueError")},
          shape \in { << <<"absent">>, <<"absent">> >>,
                      << None, PyStr("MainProcess") >> },
          custom \in { <<"absent">>, PyInt(5), PyList(<< PyOther("Widget") >>) },
          rendered \in BOOLEAN :
            Construct(v, la, ef, << <<"a", "b">>, FALSE, "Logstash">>,
                      MakeRecord(exc, shape, custom, rendered))

Next ==
    \E t \in Threads :
        \/ V0Build(t)
        \/ V0AddLogFields(t)
        \/ V0AddExtraFields(t)
        \/ V0AddDebugFields(t)
        \/ V0Serialize(t)
        \/ V1Build(t)
        \/ V1AddLogFields(t)
        \/ V1AddExtraFields(t)
        \/ V1AddDebugFields(t)
        \/ V1Serialize(t)
        \/ Return(t)

Spec == Init /\ [][Next]_vars

SpecMT == InitMT /\ [][Next]_vars

-----------------------------------------------------------------------------
(* Properties *)

Done(t) == pc[t] = "done"
Returned(t) == pc[t] = "done" /\ result[t][1] = "bytes"
RaisedAttributeError(t) == pc[t] = "done" /\ result[t] = <<"raise", "AttributeError">>

\* the mapping the fields are merged into: @fields (Version 0), message (Version 1)
Target(t) == IF version = 0 THEN DictGet(message[t], "@fields")[2] ELSE message[t]

HasExcInfo == Truthy(DictGet(record, "exc_info"))
ExtraDict == IF Truthy(extra_fields) THEN extra_fields[2] ELSE EmptyDict
Sources == { log_attrs[i][1] : i \in DOMAIN log_attrs }
Dests == { log_attrs[i][2] : i \in DOMAIN log_attrs }
UniqueDests == \A i, j \in DOMAIN log_attrs :
                  log_attrs[i][2] = log_attrs[j][2] => i = j
IsDefaultLogAttrs ==
    log_attrs = << <<"message", "message">>, <<"pathname", "path">>,
                   <<"levelname", "level">>, <<"name", "logger_name">> >>
Holds(d, k, v) == DictHas(d, k) /\ DictGet(d, k) = v

\* C1: if log_attrs maps a source attribute the record carries to the
\* destination lineno and extra_fields does not define lineno, the lineno of
\* the output is the value extracted from that source attribute
C1_LinenoIsExtractedValue ==
    \A t \in Threads : Returned(t) =>
        \A i \in DOMAIN log_attrs :
            ( /\ log_attrs[i][2] = "lineno"
              /\ DictHas(record, log_attrs[i][1])
              /\ UniqueDests
              /\ ~DictHas(ExtraDict, "lineno") )
            => Holds(Target(t), "lineno",
                     FieldValue(DictGet(record, log_attrs[i][1])))

\* C2: once the log fields are merged, every (source, dest) pair of log_attrs
\* whose source the record carries has put the coerced value under dest
C2_EveryPairExtracted ==
    \A t \in Threads : pc[t] = "extra_fields" /\ UniqueDests =>
        \A i \in DOMAIN log_attrs :
            DictHas(record, log_attrs[i][1]) =>
                /\ Holds(get_log_fields(log_attrs, record), log_attrs[i][2],
                         FieldValue(DictGet(record, log_attrs[i][1])))
                /\ DictHas(Target(t), log_attrs[i][2])

\* v occurs in the value x, at any depth
RECURSIVE Occurs(_, _)
Occurs(v, x) ==
    \/ x = v
    \/ x[1] = "List" /\ \E i \in DOMAIN x[2] : Occurs(v, x[2][i])
    \/ x[1] = "Map" /\ \E i \in DOMAIN x[2] : Occurs(v, x[2][i][2])

\* C3 as stated: the record's lineno, process, threadName, levelname and
\* name appear nowhere in the output unless log_attrs names them as a source
C3_UnlistedNeverAppears ==
    \A t \in Threads : Returned(t) =>
        \A a \in {"lineno", "process", "threadName", "levelname", "name"} :
            a \notin Sources => ~Occurs(DictGet(record, a), PyMap(message[t]))

SchemaKeys ==
    IF version = 0 THEN {"levelname", "logger"}
    ELSE {"@timestamp", "@version", "host", "tags", "type"}
DebugKeys == {"stack_trace", "lineno", "process", "thread_name",
              "funcName", "processName"}
FromListedSource(d, k) ==
    \E i \in DOMAIN log_attrs :
        /\ log_attrs[i][2] = k
        /\ DictHas(record, log_attrs[i][1])
        /\ DictGet(d, k) = FieldValue(DictGet(record, log_attrs[i][1]))

\* C3 (amended): get_log_fields returns only destinations of listed sources
\* the record carries; every field of the output is a fixed schema field, a
\* key of extra_fields, such a destination, or (only with exception info) a
\* debug field
C3_AllowList ==
    /\ \A k \in DictKeys(get_log_fields(log_attrs, record)) :
            FromListedSource(get_log_fields(log_attrs, record), k)
    /\ \A t \in Threads : Returned(t) =>
        /\ version = 0 =>
              DictKeys(message[t]) =
                  {"@timestamp", "@message", "@source", "@source_host",
                   "@source_path", "@tags", "@type", "@fields"}
        /\ \A k \in DictKeys(Target(t)) :
              \/ k \in SchemaKeys
              \/ DictHas(ExtraDict, k)
              \/ HasExcInfo /\ k \in DebugKeys
              \/ FromListedSource(Target(t), k)

C3_Witness ==
    /\ Returned(1) /\ HasExcInfo
    /\ DictHas(record, "custom") /\ "custom" \notin Sources
    /\ DictHas(Target(1), "process")

ExtraSerializable == extra_fields = None \/ Serializable(extra_fields)

\* C4: with JSON-compatible extra_fields, serialize never fails on a value
\* that get_log_fields took from the record
C4_SerializeNeverFails ==
    \A t \in Threads :
        Done(t) /\ ExtraSerializable => result[t] # <<"raise", "TypeError">>

BaseFields ==
    IF version = 0
    THEN << <<"levelname", DictGet(record, "levelname")>>,
            <<"logger", DictGet(record, "name")>> >>
    ELSE << <<"@timestamp", PyStr(format_timestamp(DictGet(record, "created")))>>,
            <<"@version", PyStr("1")>>, <<"host", PyStr(host)>>,
            <<"tags", TagList(tags)>>, <<"type", PyStr(message_type)>> >>
DebugDict == IF HasExcInfo THEN get_debug_fields(log_attrs, record) ELSE EmptyDict

\* C5: the merged mapping holds, for every key, the value of the last of
\* base, extracted, extra and debug fields that defines it, and holds every
\* key any of them defines
C5_MergeOrder ==
    \A t \in Threads :
        (pc[t] = "serialize" \/ (Done(t) /\ ~RaisedAttributeError(t))) =>
            LET ext == get_log_fields(log_attrs, record)
                fin == Target(t)
            IN  /\ DictKeys(fin) = DictKeys(BaseFields) \cup DictKeys(ext)
                                   \cup DictKeys(ExtraDict) \cup DictKeys(DebugDict)
                /\ \A k \in DictKeys(fin) :
                      DictGet(fin, k) =
                          IF DictHas(DebugDict, k) THEN DictGet(DebugDict, k)
                          ELSE IF DictHas(ExtraDict, k) THEN DictGet(ExtraDict, k)
                          ELSE IF DictHas(ext, k) THEN DictGet(ext, k)
                          ELSE DictGet(BaseFields, k)

\* a call whose debug lineno overwrote the lineno of extra_fields, and whose
\* extra_fields level overwrote the extracted level
C5_Witness ==
    /\ Returned(1) /\ HasExcInfo
    /\ \/ DictHas(ExtraDict, "lineno") /\ DictHas(DebugDict, "lineno")
       \/ DictHas(ExtraDict, "level") /\ IsDefaultLogAttrs

V1Scenario(t) ==
    /\ version = 1 /\ Returned(t)
    /\ IsDefaultLogAttrs /\ ~Truthy(extra_fields) /\ ~HasExcInfo
    /\ DictHas(record, "message")

V1ScenarioFields(t) ==
    /\ Holds(message[t], "message", DictGet(record, "message"))
    /\ Holds(message[t], "level", DictGet(record, "levelname"))
    /\ Holds(message[t], "logger_name", DictGet(record, "name"))
    /\ Holds(message[t], "path", DictGet(record, "pathname"))
    /\ Holds(message[t], "type", PyStr(message_type))

\* C6 as stated: the Version 1 document has a top-level field version = "1"
C6_V1LayoutVersionKey ==
    \A t \in Threads : V1Scenario(t) =>
        V1ScenarioFields(t) /\ Holds(message[t], "version", PyStr("1"))

\* C6 (amended): the Version 1 document of a record without exception info,
\* default log_attrs and no extra_fields has message, level, logger_name,
\* path, type and @version = "1" at top level
C6_V1Layout ==
    \A t \in Threads : V1Scenario(t) =>
        V1ScenarioFields(t) /\ Holds(message[t], "@version", PyStr("1"))

C6_Witness == V1Scenario(1) /\ message_type = "applog"

V0Scenario(t) ==
    /\ version = 0 /\ Returned(t)
    /\ IsDefaultLogAttrs /\ ~Truthy(extra_fields) /\ ~HasExcInfo
    /\ DictHas(record, "message")

\* C7: the Version 0 document of a record without exception info, default
\* log_attrs and no extra_fields: levelname, logger, message, path inside
\* @fields; @source = message_type://host/pathname; @source_host,
\* @source_path, @type and @tags as configured
C7_V0Layout ==
    \A t \in Threads : V0Scenario(t) =>
        LET path == DictGet(record, "pathname")
        IN  /\ Holds(Target(t), "levelname", DictGet(record, "levelname"))
            /\ Holds(Target(t), "logger", DictGet(record, "name"))
            /\ Holds(Target(t), "message", DictGet(record, "message"))
            /\ Holds(Target(t), "path", path)
            /\ Holds(message[t], "@source",
                     PyStr(message_type \o "://" \o host \o "/" \o path[2]))
            /\ (message_type = "Logstash" /\ host = "h1" /\ path[2] = "/x.py"
                  => Holds(message[t], "@source", PyStr("Logstash://h1//x.py")))
            /\ Holds(message[t], "@source_host", PyStr(host))
            /\ Holds(message[t], "@source_path", path)
            /\ Holds(message[t], "@type", PyStr(message_type))
            /\ DictHas(message[t], "@tags")
            /\ LET tg == DictGet(message[t], "@tags")
               IN  /\ tg[1] = "List" /\ Len(tg[2]) = Len(tags)
                   /\ \A i \in DOMAIN tags : tg[2][i] = PyStr(tags[i])

C7_Witness == V0Scenario(1) /\ Len(tags) = 2

StackTracePresent(t) ==
    /\ DictHas(Target(t), "stack_trace")
    /\ DictGet(Target(t), "stack_trace")[1] = "Str"
    /\ DictGet(Target(t), "stack_trace")[2] # ""

\* C8 as stated: for every log_attrs and extra_fields the output has a
\* non-empty stack_trace with exception info and no stack_trace without
C8_StackTraceEveryConfig ==
    \A t \in Threads : Returned(t) =>
        /\ HasExcInfo => StackTracePresent(t)
        /\ ~HasExcInfo => ~DictHas(Target(t), "stack_trace")

\* C8 (amended): with exception info the returned document has a non-empty
\* stack_trace unless log_attrs lists stack_trace as a source name; without
\* exception info it has no stack_trace unless extra_fields defines it or
\* log_attrs maps a carried attribute to the destination stack_trace
C8_StackTrace ==
    \A t \in Threads : Returned(t) =>
        /\ (HasExcInfo /\ "stack_trace" \notin Sources) =>
              /\ StackTracePresent(t)
              /\ DictGet(Target(t), "stack_trace")[2] =
                   "Traceback (most recent call last):\n"
                   \o DictGet(record, "exc_info")[2] \o ": boom\n"
        /\ ( /\ ~HasExcInfo
             /\ ~DictHas(ExtraDict, "stack_trace")
             /\ ~\E i \in DOMAIN log_attrs :
                    log_attrs[i][2] = "stack_trace" /\ DictHas(record, log_attrs[i][1]) )
           => ~DictHas(Target(t), "stack_trace")

C8_Witness ==
    /\ Returned(1) /\ HasExcInfo /\ "stack_trace" \notin Sources
    /\ StackTracePresent(1)

\* format(record) of a freshly constructed formatter, as one function
FreshFormat(v, attrs, ef, mtype, tg, h, rec) ==
    LET base == IF v = 0 THEN V0Message(mtype, tg, h, rec)
                ELSE V1Message(mtype, tg, h, rec)
        upd(m, e) == IF v = 0 THEN V0UpdateFields(m, e) ELSE DictUpdate(m, e)
        m1 == upd(base, get_log_fields(attrs, rec))
        m2 == IF Truthy(ef) THEN upd(m1, ef[2]) ELSE m1
    IN  IF Truthy(DictGet(rec, "exc_info"))
        THEN IF DebugRaises(rec) THEN <<"raise", "AttributeError">>
             ELSE serialize(upd(m2, get_debug_fields(attrs, rec)))
        ELSE serialize(m2)

\* C9: no step of any call changes the formatter's configuration or the
\* record, and what a call returns is what a fresh formatter with that
\* configuration returns for that record, whatever the other threads do
C9_Stateless ==
    /\ [](\A t \in Threads : Done(t) =>
            result[t] = FreshFormat(version, log_attrs, extra_fields,
                                    message_type, tags, host, record))
    /\ [][self' = self /\ record' = record]_vars

\* one call has returned while another is still between its steps
C9_Witness ==
    /\ Returned(1) /\ pc[2] \in {"extra_fields", "debug_fields"}

\* C10: a record with exception info that lacks funcName or processName is
\* formatted without raising, and funcName / processName enter the debug
\* fields only when the record does not define them
C10_MissingNamesNoError ==
    \A t \in Threads :
        /\ (Done(t) /\ HasExcInfo) => ~RaisedAttributeError(t)
        /\ (Returned(t) /\ HasExcInfo) =>
              \A k \in {"funcName", "processName"} :
                  (DictHas(Target(t), k) /\ k \notin Dests /\ ~DictHas(ExtraDict, k))
                      => ~DictHas(record, k)

====
